---------------------------- MODULE Spec2Model ----------------------------
(***************************************************************************)
(* The message-stream reconciliation pipeline of the chat front-end:       *)
(* the ChatWindow component (subscription effect, translation overlay,     *)
(* local deletion, read-state snapshot, presentation grouping) against a   *)
(* backend message store.                                                  *)
(*                                                                         *)
(* One React commit (a handler, the render it causes and the effects of    *)
(* that render) is one action: renders and effects run to completion on    *)
(* the UI thread.  What is asynchronous in the code is asynchronous here:  *)
(* stream deliveries, translation fetches, and the resolution of the       *)
(* getUnreadMessages / markMessagesAsRead promises.                        *)
(***************************************************************************)
EXTENDS Integers, Sequences, FiniteSets, TLC

(***************************************************************************)
(* Bounds of the model.                                                    *)
(***************************************************************************)
MaxMsgs == 3        \* messages the backend holds per chat

MaxInFlight == 2    \* delivery callbacks suspended in their await

MaxPending == 2     \* unresolved getUnreadMessages / markMessagesAsRead promises

MaxSteps == 7       \* events (user gestures, deliveries, completions) of one run

MaxEcho == 2        \* unresolved updateTranslationSettings calls

MaxListSnaps == 2   \* getUserChats callbacks suspended in their Promise.all

MaxListReqs == 1    \* unresolved deleteChat / blockUser / unblockUser calls

MaxDeleteReqs == 1  \* unresolved deleteMessageForEveryone calls

MaxSendOps == 1     \* handleSendMessage / handleSendMedia executions in progress

MaxLen == 3         \* messages of a list handed to the Presentation Grouper

MaxDay == 3         \* calendar days those messages are spread over

(***************************************************************************)
(* The universe: two chats of the current user, each with one counterpart. *)
(***************************************************************************)
Chats == {"c1", "c2"}

Langs == {"en", "es"}

CurrentUser == "me"

OtherUser(c) == IF c = "c1" THEN "u1" ELSE "u2"

Others == {OtherUser(c) : c \in Chats}

NoText == "undefined"

NoTranslation == <<>>

\* replyingTo === null
NoReply == <<>>

(***************************************************************************)
(* The Message type.  The n-th message of chat c has a fixed author, text  *)
(* and day, so that a message is immutable once created: chat c1 is        *)
(* other/"Hola", other/"Adios", me/"Hi", other/media, ...; chat c2 is      *)
(* other/"Ciao", other/media, me/"Hi", ...                                 *)
(***************************************************************************)
MsgSender(c, n) == IF n % 3 = 0 THEN CurrentUser ELSE OtherUser(c)

MsgText(c, n) ==
    IF MsgSender(c, n) = CurrentUser THEN "Hi"
    ELSE IF c = "c1"
         THEN (IF n % 4 = 0 THEN NoText ELSE IF n % 2 = 1 THEN "Hola" ELSE "Adios")
         ELSE (IF n % 3 = 2 THEN NoText ELSE "Ciao")

MsgTimestamp(c, n) == [year |-> 2024, month |-> 0, date |-> (n + 1) \div 2]

Message(c, n) ==
    [id |-> <<c, n>>, senderId |-> MsgSender(c, n), originalText |-> MsgText(c, n),
     timestamp |-> MsgTimestamp(c, n), translatedText |-> NoTranslation]

(***************************************************************************)
(* Collaborator services.                                                  *)
(***************************************************************************)
\* translationService.translateText: the translation of a text into a language
translateText(text, lang) == <<text, lang>>

\* deletionService.getDeletedMessagesForChat
getDeletedMessagesForChat(led, c) == led[c]

\* deletionService.addLocalDeletedMessage
addLocalDeletedMessage(led, c, id) == [led EXCEPT ![c] = @ \cup {id}]

\* ChatTranslationContext.getSettings, with its default when absent
DefaultSettings == [enabled |-> FALSE, targetLanguage |-> "en"]

getSettings(store, c) == store[c]

\* ChatTranslationContext.setSettings
setSettings(store, c, s) == [store EXCEPT ![c] = s]

\* chatService.getChatMessages: what a delivery hands to the callback
\* (the full ordered message list of the chat)
FetchedMessages(n, c) == [i \in 1..n |-> Message(c, i)]

\* chatService.getUnreadMessages
getUnreadMessages(unread, c) == unread[c]

\* chatService.markMessagesAsRead
markMessagesAsRead(unread, c) == [unread EXCEPT ![c] = {}]

(***************************************************************************)
(* Pure helpers of the delivery callback.                                  *)
(***************************************************************************)
\* JavaScript truthiness of msg.originalText
HasText(msg) == msg.originalText # NoText /\ msg.originalText # ""

\* line 91: the messages a translation is fetched for
NeedsTranslation(msg) == msg.senderId # CurrentUser /\ HasText(msg)

\* lines 82-84, with a blocked sender let through
FilterIgnoringBlocked(fetchedMessages, deletedLocally, blocked) ==
    LET Keep(msg) == msg.id \notin deletedLocally
    IN  SelectSeq(fetchedMessages, Keep)

\* lines 82-84
FilterMessages(fetchedMessages, deletedLocally, blocked) ==
    LET Keep(msg) == msg.id \notin deletedLocally /\ msg.senderId \notin blocked
    IN  SelectSeq(fetchedMessages, Keep)

\* the indices of a filtered list whose message gets a translation fetch
FetchIndices(msgs) == {i \in DOMAIN msgs : NeedsTranslation(msgs[i])}

\* lines 90-96, with the original text overwritten by the translation
TranslateEntryOverwriting(msg, lang) ==
    IF NeedsTranslation(msg)
    THEN [msg EXCEPT !.originalText = "translated",
                     !.translatedText = translateText(msg.originalText, lang)]
    ELSE msg

\* lines 90-96: one element of the Promise.all
TranslateEntry(msg, lang) ==
    IF NeedsTranslation(msg)
    THEN [msg EXCEPT !.translatedText = translateText(msg.originalText, lang)]
    ELSE msg

\* the array Promise.all has collected once the fetches in `done` have resolved
Processed(msgs, done, lang) ==
    [i \in DOMAIN msgs |-> IF i \in done THEN TranslateEntry(msgs[i], lang) ELSE msgs[i]]

\* Promise.all resolving as soon as one fetch has resolved
AnyResolved(msgs, done) == done # {}

\* line 89: Promise.all resolves when every fetch has resolved
AllResolved(msgs, done) == done = FetchIndices(msgs)

\* the messages each chat holds when the application starts
InitialMsgs(c) == 2

\* the ids of the first n messages of chat c that the counterpart wrote
UnreadOf(n, c) == {<<c, i>> : i \in {j \in 1..n : MsgSender(c, j) # CurrentUser}}

VARIABLES
    mounted,            \* a ChatWindow instance is on screen
    chatId,             \* prop chatId
    blockedUsers,       \* prop blockedUsers
    translationEnabled, \* state, line 50
    targetLanguage,     \* state, line 51
    showSettings,       \* state, line 52
    messages,           \* state, line 49: the displayed list
    unreadMessageIds,   \* state, line 56
    hasMarkedAsReadRef, \* ref, line 58
    subs,               \* the active getChatMessages subscriptions
    batches,            \* delivery callbacks suspended in `await Promise.all`, oldest first
    unreadReqs,         \* pending getUnreadMessages promises
    markReqs,           \* pending markMessagesAsRead promises
    echoReqs,           \* pending updateTranslationSettings calls, by calling handler
    stored,             \* backend: number of messages of each chat
    backendUnread,      \* backend: ids of each chat not yet read by the current user
    ledger,             \* Deletion Ledger: chat -> locally deleted ids
    settings,           \* Translation Overlay store: chat -> settings
    callLog,            \* history: read-state calls issued by the last chat-open, in order
    snapshotCalls,      \* history: getUnreadMessages calls since the last chat-open
    snapshotShown,      \* history: unreadMessageIds holds the snapshot of this chat-open
    peakSubs,           \* history: most subscriptions active at once during the last commit
    steps,              \* events so far
    rendered,           \* the display sequence the last render produced
    translateFailures,  \* history: delivery callbacks ended by a rejected translateText
    chats,              \* ChatList state, line 23: the displayed chat list
    listBlockedUsers,   \* ChatList state, line 29: blockedUsers
    contextMenu,        \* ChatList state, line 28: the chat whose menu is open, or "none"
    listSnaps,          \* getUserChats callbacks suspended in Promise.all, oldest first
    listReqs,           \* pending deleteChat / blockUser / unblockUser calls
    chatDeleted,        \* backend: the chats that carry a deletedAt marker
    participantOf,      \* backend: chat -> the participant other than the user, or "none"
    profiles,           \* backend: the users whose profile getUser resolves
    deleteReqs,         \* pending deleteMessageForEveryone calls
    removed,            \* backend: ids of the messages deleted for everyone
    replyingTo,         \* state, line 54: id of the message replied to, or NoReply
    uploading,          \* state, line 53
    sendOps,            \* handleSendMessage / handleSendMedia executions at an await
    uploadCalls,        \* history: uploadMedia calls issued
    sendCalls,          \* history: sendMessage calls issued
    alerts              \* history: alert() notices shown by ChatWindow

vars == <<mounted, chatId, blockedUsers, translationEnabled, targetLanguage, showSettings,
          messages, unreadMessageIds, hasMarkedAsReadRef, subs, batches, unreadReqs,
          markReqs, stored, backendUnread, ledger, settings, callLog,
          snapshotCalls, snapshotShown, peakSubs, steps, rendered, translateFailures,
          echoReqs,
          chats, listBlockedUsers, contextMenu, listSnaps, listReqs, chatDeleted,
          participantOf, profiles, deleteReqs, removed, replyingTo, uploading, sendOps,
          uploadCalls, sendCalls, alerts>>

\* the state of ChatWindow and of the backend it talks to
windowVars == <<mounted, chatId, blockedUsers, translationEnabled, targetLanguage,
                showSettings, messages, unreadMessageIds, hasMarkedAsReadRef, subs, batches,
                unreadReqs, markReqs, echoReqs, stored, backendUnread, ledger, settings,
                callLog, snapshotCalls, snapshotShown, peakSubs>>

\* the state of ChatList and of the backend's chat documents and profiles
listVars == <<chats, listBlockedUsers, contextMenu, listSnaps, listReqs, chatDeleted,
              participantOf, profiles>>

\* the state of the ChatWindow handlers that delete for everyone and send
actionVars == <<deleteReqs, removed, replyingTo, uploading, sendOps, uploadCalls,
                sendCalls, alerts>>

\* what no event of the message stream touches
outsideStream == <<rendered, translateFailures, listVars, actionVars>>

\* The chat list shows nothing yet and has no call in flight; both chats have a
\* counterpart with a profile and no deletedAt marker.
ListIdle ==
    /\ chats = <<>>
    /\ listBlockedUsers = {}
    /\ contextMenu = "none"
    /\ listSnaps = <<>>
    /\ listReqs = {}
    /\ chatDeleted = {}
    /\ participantOf = [c \in Chats |-> OtherUser(c)]
    /\ profiles = Others

\* Nothing is deleted for everyone, the composer is empty and no handler is at an
\* await.
ActionsIdle ==
    /\ deleteReqs = {}
    /\ removed = {}
    /\ replyingTo = NoReply
    /\ uploading = FALSE
    /\ sendOps = {}
    /\ uploadCalls = 0
    /\ sendCalls = 0
    /\ alerts = 0

\* The application has started and no chat is on screen yet; the chats hold the
\* messages exchanged so far, those of the counterpart unread.
Init ==
    /\ mounted = FALSE
    /\ chatId = "c1"
    /\ blockedUsers = {}
    /\ translationEnabled = FALSE
    /\ targetLanguage = "en"
    /\ showSettings = FALSE
    /\ messages = <<>>
    /\ unreadMessageIds = {}
    /\ hasMarkedAsReadRef = FALSE
    /\ subs = {}
    /\ batches = <<>>
    /\ unreadReqs = {}
    /\ markReqs = {}
    /\ echoReqs = {}
    /\ stored = [c \in Chats |-> InitialMsgs(c)]
    /\ backendUnread = [c \in Chats |-> UnreadOf(stored[c], c)]
    /\ ledger = [c \in Chats |-> {}]
    /\ settings = [c \in Chats |-> DefaultSettings]
    /\ callLog = <<>>
    /\ snapshotCalls = 0
    /\ snapshotShown = FALSE
    /\ peakSubs = 0
    /\ steps = 0
    /\ rendered = <<>>
    /\ translateFailures = 0
    /\ ListIdle
    /\ ActionsIdle

(***************************************************************************)
(* The effects of ChatWindow.  An effect works on the record               *)
(*   [ref, subs, calls, snaps, peak]:                                      *)
(* hasMarkedAsReadRef.current, the active subscriptions, the read-state    *)
(* calls issued so far in this commit (in issue order), the number of      *)
(* getUnreadMessages calls among them, and the largest number of           *)
(* subscriptions that were active at once.                                 *)
(***************************************************************************)
Subscription(c, enabled, lang, blocked) ==
    [chat |-> c, enabled |-> enabled, lang |-> lang, blocked |-> blocked]

\* the subscription the last run of the subscription effect established
CurrentSub == Subscription(chatId, translationEnabled, targetLanguage, blockedUsers)

Max(a, b) == IF a >= b THEN a ELSE b

EffectState ==
    [ref |-> hasMarkedAsReadRef, subs |-> subs, calls |-> <<>>, snaps |-> 0,
     peak |-> Cardinality(subs)]

\* lines 66-68
ResetRefEffect(e) == [e EXCEPT !.ref = FALSE]

\* lines 70-103 without the hasMarkedAsReadRef guard
SubscriptionEffectUnguarded(e, c, enabled, lang, blocked) ==
    [ref   |-> TRUE,
     subs  |-> e.subs \cup {Subscription(c, enabled, lang, blocked)},
     calls |-> Append(e.calls, "getUnreadMessages"),
     snaps |-> e.snaps + 1,
     peak  |-> Max(e.peak, Cardinality(e.subs \cup {Subscription(c, enabled, lang, blocked)}))]

\* lines 70-103: the body of the subscription effect
SubscriptionEffect(e, c, enabled, lang, blocked) ==
    [ref   |-> TRUE,
     subs  |-> e.subs \cup {Subscription(c, enabled, lang, blocked)},
     calls |-> IF ~e.ref THEN Append(e.calls, "getUnreadMessages") ELSE e.calls,
     snaps |-> IF ~e.ref THEN e.snaps + 1 ELSE e.snaps,
     peak  |-> Max(e.peak, Cardinality(e.subs \cup {Subscription(c, enabled, lang, blocked)}))]

\* a cleanup that forgets to unsubscribe
SubscriptionCleanupLeaking(e, s) == e

\* line 104: the cleanup of the subscription effect
SubscriptionCleanup(e, s) == [e EXCEPT !.subs = @ \ {s}]

\* lines 111-117
MarkAsReadEffect(e) == [e EXCEPT !.calls = Append(@, "markMessagesAsRead")]

\* the effects of a chat-open with the mark-as-read effect run first
OpenEffectsMarkFirst(e, c, enabled, lang, blocked) ==
    SubscriptionEffect(MarkAsReadEffect(ResetRefEffect(e)), c, enabled, lang, blocked)

\* lines 60-117: the effects of the render that sees a new chatId, in declaration
\* order (the settings effect only schedules state, see OpenCommit)
OpenEffects(e, c, enabled, lang, blocked) ==
    MarkAsReadEffect(SubscriptionEffect(ResetRefEffect(e), c, enabled, lang, blocked))

\* The commit of a chat-open.  The first render still closes over the previous
\* translationEnabled / targetLanguage (lines 60-64 only schedule the new ones); if
\* the loaded settings differ, a second render re-runs the subscription effect.
OpenCommit(e, c, enabled, lang, blocked, s) ==
    LET e1 == OpenEffects(e, c, enabled, lang, blocked)
    IN  IF s.enabled = enabled /\ s.targetLanguage = lang
        THEN e1
        ELSE SubscriptionEffect(
                 SubscriptionCleanup(e1, Subscription(c, enabled, lang, blocked)),
                 c, s.enabled, s.targetLanguage, blocked)

\* The commit after translationEnabled, targetLanguage or blockedUsers changed
\* (the dependency list of line 105).
ResubscribeCommit(e, old, c, enabled, lang, blocked) ==
    IF old = Subscription(c, enabled, lang, blocked)
    THEN e
    ELSE SubscriptionEffect(SubscriptionCleanup(e, old), c, enabled, lang, blocked)

\* The backend serves the read-state calls of a commit in issue order.
RECURSIVE ServeCalls(_, _, _)
ServeCalls(calls, st, c) ==
    IF calls = <<>> THEN st
    ELSE LET st1 == IF Head(calls) = "getUnreadMessages"
                    THEN [st EXCEPT !.results = @ \cup {getUnreadMessages(st.unread, c)}]
                    ELSE [st EXCEPT !.unread = markMessagesAsRead(st.unread, c),
                                    !.marks = @ + 1]
         IN  ServeCalls(Tail(calls), st1, c)

Served(calls, c) ==
    ServeCalls(calls, [unread |-> backendUnread, results |-> {}, marks |-> 0], c)

NewUnreadReqs(back) == {[ids |-> r, orphan |-> FALSE, cur |-> TRUE] : r \in back.results}

NewMarkReqs(back) == IF back.marks > 0 THEN {[orphan |-> FALSE, cur |-> TRUE]} ELSE {}

\* the suspended callbacks of a subscription that is no longer active are cancelled
MarkCancelled(bs, wasActive, active) ==
    [i \in DOMAIN bs |-> [bs[i] EXCEPT !.cancelled = @ \/ wasActive \ active # {}]]

MarkOrphan(bs) ==
    [i \in DOMAIN bs |-> [bs[i] EXCEPT !.cancelled = TRUE, !.orphan = TRUE]]

Stale(reqs) == {[r EXCEPT !.cur = FALSE] : r \in reqs}

Orphaned(reqs) == {[r EXCEPT !.cur = FALSE, !.orphan = TRUE] : r \in reqs}

\* one more event of the run
Tick == steps < MaxSteps /\ steps' = steps + 1

RemoveAt(seq, i) == [j \in 1..(Len(seq) - 1) |-> IF j < i THEN seq[j] ELSE seq[j + 1]]

(***************************************************************************)
(* Chat-open: the shared part of Mount and ChangeChat.                     *)
(***************************************************************************)
OpenChat(e0, c, enabled0, lang0, oldUnreadReqs, oldMarkReqs) ==
    LET s    == getSettings(settings, c)
        e    == OpenCommit(e0, c, enabled0, lang0, blockedUsers, s)
        back == Served(e.calls, c)
    IN  /\ Cardinality(oldUnreadReqs) < MaxPending
        /\ Cardinality(oldMarkReqs) < MaxPending
        /\ mounted' = TRUE
        /\ chatId' = c
        /\ translationEnabled' = s.enabled
        /\ targetLanguage' = s.targetLanguage
        /\ hasMarkedAsReadRef' = e.ref
        /\ subs' = e.subs
        /\ batches' = MarkCancelled(batches, subs, e.subs)
        /\ unreadReqs' = oldUnreadReqs \cup NewUnreadReqs(back)
        /\ markReqs' = oldMarkReqs \cup NewMarkReqs(back)
        /\ backendUnread' = back.unread
        /\ callLog' = e.calls
        /\ snapshotCalls' = e.snaps
        /\ snapshotShown' = FALSE
        /\ peakSubs' = e.peak
        /\ UNCHANGED <<blockedUsers, stored, ledger, settings>>

\* The parent renders a ChatWindow for chat c: a new component instance, with the
\* props translationEnabled and targetLanguage as its initial state (lines 50-51).
Mount(c, initialTranslationEnabled, initialTargetLanguage) ==
    /\ Tick
    /\ UNCHANGED outsideStream
    /\ UNCHANGED echoReqs
    /\ ~mounted
    /\ OpenChat([EffectState EXCEPT !.ref = FALSE], c,
                initialTranslationEnabled, initialTargetLanguage, unreadReqs, markReqs)
    /\ messages' = <<>>
    /\ unreadMessageIds' = {}
    /\ showSettings' = FALSE

\* The parent passes another chatId to the mounted ChatWindow.
ChangeChat(c) ==
    /\ Tick
    /\ UNCHANGED outsideStream
    /\ UNCHANGED echoReqs
    /\ mounted
    /\ c # chatId
    /\ OpenChat(SubscriptionCleanup(EffectState, CurrentSub), c,
                translationEnabled, targetLanguage, Stale(unreadReqs), Stale(markReqs))
    /\ UNCHANGED <<messages, unreadMessageIds, showSettings>>

\* The ChatWindow is removed (onBack): the cleanup of line 104 runs; React ignores
\* every later state update of the removed instance.
Unmount ==
    /\ Tick
    /\ UNCHANGED outsideStream
    /\ mounted
    /\ mounted' = FALSE
    /\ subs' = SubscriptionCleanup(EffectState, CurrentSub).subs
    /\ batches' = MarkOrphan(batches)
    /\ unreadReqs' = Orphaned(unreadReqs)
    /\ markReqs' = Orphaned(markReqs)
    /\ messages' = <<>>
    /\ unreadMessageIds' = {}
    /\ showSettings' = FALSE
    /\ hasMarkedAsReadRef' = FALSE
    /\ callLog' = <<>>
    /\ snapshotCalls' = 0
    /\ snapshotShown' = FALSE
    /\ peakSubs' = EffectState.peak
    /\ echoReqs' = {}
    /\ UNCHANGED <<chatId, blockedUsers, translationEnabled, targetLanguage,
                   stored, backendUnread, ledger, settings>>

\* A commit of the mounted ChatWindow in which only translationEnabled,
\* targetLanguage or blockedUsers may have changed.
Resubscribe(enabled, lang, blocked) ==
    LET e    == ResubscribeCommit(EffectState, CurrentSub, chatId, enabled, lang, blocked)
        back == Served(e.calls, chatId)
    IN  /\ translationEnabled' = enabled
        /\ targetLanguage' = lang
        /\ blockedUsers' = blocked
        /\ hasMarkedAsReadRef' = e.ref
        /\ subs' = e.subs
        /\ batches' = MarkCancelled(batches, subs, e.subs)
        /\ unreadReqs' = unreadReqs \cup NewUnreadReqs(back)
        /\ markReqs' = markReqs \cup NewMarkReqs(back)
        /\ backendUnread' = back.unread
        /\ snapshotCalls' = snapshotCalls + e.snaps
        /\ callLog' = callLog \o e.calls
        /\ peakSubs' = e.peak
        /\ UNCHANGED <<mounted, chatId, stored, snapshotShown>>

(***************************************************************************)
(* The translation handlers (lines 186-213).                               *)
(***************************************************************************)
\* updateTranslationSettings is called by `handler`; the call is in flight
IssueEcho(handler) ==
    /\ [handler |-> handler] \notin echoReqs
    /\ Cardinality(echoReqs) < MaxEcho
    /\ echoReqs' = echoReqs \cup {[handler |-> handler]}

handleToggleTranslation ==
    /\ Tick
    /\ UNCHANGED outsideStream
    /\ mounted
    /\ IF ~translationEnabled
       THEN /\ showSettings' = TRUE
            /\ UNCHANGED echoReqs
            /\ UNCHANGED <<mounted, chatId, blockedUsers, translationEnabled, targetLanguage,
                           hasMarkedAsReadRef, subs, batches, unreadReqs, markReqs, stored,
                           backendUnread, callLog, snapshotCalls, snapshotShown, peakSubs>>
       ELSE /\ Resubscribe(FALSE, targetLanguage, blockedUsers)
            /\ IssueEcho("toggle")
            /\ UNCHANGED showSettings
    /\ UNCHANGED <<messages, unreadMessageIds, ledger, settings>>

handleSaveTranslationSettings(enabled, language) ==
    /\ Tick
    /\ UNCHANGED outsideStream
    /\ mounted
    /\ showSettings
    /\ Resubscribe(enabled, language, blockedUsers)
    /\ settings' = setSettings(settings, chatId, [enabled |-> enabled, targetLanguage |-> language])
    /\ IssueEcho("save")
    /\ UNCHANGED <<messages, unreadMessageIds, showSettings, ledger>>

handleLanguageChange(language) ==
    /\ Tick
    /\ UNCHANGED outsideStream
    /\ mounted
    /\ Resubscribe(translationEnabled, language, blockedUsers)
    /\ settings' = setSettings(settings, chatId,
                               [enabled |-> translationEnabled, targetLanguage |-> language])
    /\ IssueEcho("language")
    /\ UNCHANGED <<messages, unreadMessageIds, showSettings, ledger>>

\* The updateTranslationSettings call r resolves: handleSaveTranslationSettings goes
\* on to line 204; the other two handlers have nothing left to do.
EchoResolve(r) ==
    /\ Tick
    /\ UNCHANGED outsideStream
    /\ r \in echoReqs
    /\ echoReqs' = echoReqs \ {r}
    /\ showSettings' = (IF r.handler = "save" THEN FALSE ELSE showSettings)
    /\ UNCHANGED <<mounted, chatId, blockedUsers, translationEnabled, targetLanguage,
                   messages, unreadMessageIds, hasMarkedAsReadRef, subs, batches, unreadReqs,
                   markReqs, stored, backendUnread, ledger, settings, callLog, snapshotCalls,
                   snapshotShown, peakSubs>>

\* a failure that puts the stored settings of the chat back to the default
EchoFailReverting(r) ==
    /\ Tick
    /\ UNCHANGED outsideStream
    /\ r \in echoReqs
    /\ echoReqs' = echoReqs \ {r}
    /\ settings' = setSettings(settings, chatId, DefaultSettings)
    /\ UNCHANGED <<mounted, chatId, blockedUsers, translationEnabled, targetLanguage,
                   showSettings, messages, unreadMessageIds, hasMarkedAsReadRef, subs, batches,
                   unreadReqs, markReqs, stored, backendUnread, ledger, callLog,
                   snapshotCalls, snapshotShown, peakSubs>>

\* The updateTranslationSettings call r rejects: the await of line 203 or 212
\* throws out of the handler (no try/catch), line 204 is not reached.
EchoFail(r) ==
    /\ Tick
    /\ UNCHANGED outsideStream
    /\ r \in echoReqs
    /\ echoReqs' = echoReqs \ {r}
    /\ UNCHANGED <<mounted, chatId, blockedUsers, translationEnabled, targetLanguage,
                   showSettings, messages, unreadMessageIds, hasMarkedAsReadRef, subs, batches,
                   unreadReqs, markReqs, stored, backendUnread, ledger, settings, callLog,
                   snapshotCalls, snapshotShown, peakSubs>>

\* TranslationSettings onClose (line 351)
CloseSettings ==
    /\ Tick
    /\ UNCHANGED outsideStream
    /\ UNCHANGED echoReqs
    /\ mounted
    /\ showSettings
    /\ showSettings' = FALSE
    /\ UNCHANGED <<mounted, chatId, blockedUsers, translationEnabled, targetLanguage,
                   messages, unreadMessageIds, hasMarkedAsReadRef, subs, batches, unreadReqs,
                   markReqs, stored, backendUnread, ledger, settings, callLog, snapshotCalls,
                   snapshotShown, peakSubs>>

\* The parent passes a new blockedUsers set (user u was blocked or unblocked).
BlockedUsersChange(u) ==
    LET blocked == IF u \in blockedUsers THEN blockedUsers \ {u} ELSE blockedUsers \cup {u}
    IN  /\ Tick
        /\ UNCHANGED outsideStream
        /\ UNCHANGED echoReqs
        /\ IF mounted
           THEN Resubscribe(translationEnabled, targetLanguage, blocked)
           ELSE /\ blockedUsers' = blocked
                /\ UNCHANGED <<mounted, chatId, translationEnabled, targetLanguage,
                               hasMarkedAsReadRef, subs, batches, unreadReqs, markReqs, stored,
                               backendUnread, callLog, snapshotCalls, snapshotShown, peakSubs>>
        /\ UNCHANGED <<messages, unreadMessageIds, showSettings, ledger, settings>>

(***************************************************************************)
(* Local deletion (lines 215-218).                                         *)
(***************************************************************************)
\* drops the first message of the list, whatever its id
RemoveFirstMessage(msgs, messageId) == IF msgs = <<>> THEN msgs ELSE Tail(msgs)

\* line 217
RemoveMessage(msgs, messageId) ==
    LET Keep(msg) == msg.id # messageId
    IN  SelectSeq(msgs, Keep)

\* a deletion that also removes the last message from the backend store
handleDeleteOnBackend(messageId) ==
    /\ Tick
    /\ UNCHANGED outsideStream
    /\ UNCHANGED echoReqs
    /\ mounted
    /\ \E i \in DOMAIN messages : messages[i].id = messageId
    /\ ledger' = addLocalDeletedMessage(ledger, chatId, messageId)
    /\ messages' = RemoveMessage(messages, messageId)
    /\ stored' = [stored EXCEPT ![chatId] = @ - 1]
    /\ UNCHANGED <<mounted, chatId, blockedUsers, translationEnabled, targetLanguage,
                   showSettings, unreadMessageIds, hasMarkedAsReadRef, subs, batches,
                   unreadReqs, markReqs, backendUnread, settings, callLog,
                   snapshotCalls, snapshotShown, peakSubs>>

handleDeleteLocalMessage(messageId) ==
    /\ Tick
    /\ UNCHANGED outsideStream
    /\ UNCHANGED echoReqs
    /\ mounted
    /\ \E i \in DOMAIN messages : messages[i].id = messageId
    /\ ledger' = addLocalDeletedMessage(ledger, chatId, messageId)
    /\ messages' = RemoveMessage(messages, messageId)
    /\ UNCHANGED <<mounted, chatId, blockedUsers, translationEnabled, targetLanguage,
                   showSettings, unreadMessageIds, hasMarkedAsReadRef, subs, batches,
                   unreadReqs, markReqs, stored, backendUnread, settings, callLog,
                   snapshotCalls, snapshotShown, peakSubs>>

(***************************************************************************)
(* Deletion for everyone (lines 220-228).  The handler closes over the     *)
(* message list of the render it was created in.                           *)
(***************************************************************************)
\* line 222: the handler of a displayed message calls the backend and awaits
handleDeleteMessageForEveryone(messageId) ==
    /\ Tick
    /\ mounted
    /\ \E i \in DOMAIN messages : messages[i].id = messageId
    /\ Cardinality(deleteReqs) < MaxDeleteReqs
    /\ ~\E r \in deleteReqs : r.id = messageId
    /\ deleteReqs' = deleteReqs \cup {[id |-> messageId, closure |-> messages]}
    /\ UNCHANGED <<removed, replyingTo, uploading, sendOps, uploadCalls, sendCalls, alerts>>
    /\ UNCHANGED <<windowVars, rendered, translateFailures, listVars>>

\* The backend deletes the message and the call resolves: line 223.
DeleteResolve(r) ==
    /\ Tick
    /\ r \in deleteReqs
    /\ deleteReqs' = deleteReqs \ {r}
    /\ removed' = removed \cup {r.id}
    /\ messages' = RemoveMessage(r.closure, r.id)
    /\ UNCHANGED <<replyingTo, uploading, sendOps, uploadCalls, sendCalls, alerts>>
    /\ UNCHANGED <<mounted, chatId, blockedUsers, translationEnabled, targetLanguage,
                   showSettings, unreadMessageIds, hasMarkedAsReadRef, subs, batches,
                   unreadReqs, markReqs, echoReqs, stored, backendUnread, ledger,
                   settings, callLog, snapshotCalls, snapshotShown, peakSubs>>
    /\ UNCHANGED <<rendered, translateFailures, listVars>>

\* The call rejects: the catch of lines 224-227 logs and alerts.
DeleteFail(r) ==
    /\ Tick
    /\ r \in deleteReqs
    /\ deleteReqs' = deleteReqs \ {r}
    /\ alerts' = alerts + 1
    /\ UNCHANGED <<removed, replyingTo, uploading, sendOps, uploadCalls, sendCalls>>
    /\ UNCHANGED <<windowVars, rendered, translateFailures, listVars>>

(***************************************************************************)
(* The composer: reply target and the two send handlers (lines 119-184,    *)
(* 230-236, 331).  A handler execution suspended at an await is a record   *)
(* [kind, stage, reply]: text or media, the call it awaits, and the reply  *)
(* target of the render the handler was created in.                        *)
(***************************************************************************)
Texts == {"", " ", "hello"}

Files == {"photo.png", "huge.bin"}

\* String.prototype.trim on the texts above
trim(text) == IF text \in {"", " "} THEN "" ELSE text

\* the media storage accepts the first of the two files
validateMediaFile(file) == [valid |-> file = "photo.png"]

\* the answers of canSendMessage
Validations == {[allowed |-> TRUE], [allowed |-> FALSE]}

\* a check that lets every message through
AlwaysAllowed(validation) == TRUE

\* lines 123 and 155
IsAllowed(validation) == validation.allowed

\* the handler execution op is suspended
StartOp(op) ==
    /\ Cardinality(sendOps) < MaxSendOps
    /\ op \notin sendOps
    /\ sendOps' = sendOps \cup {op}

\* lines 230-236
handleReplyToMessage(messageId) ==
    /\ Tick
    /\ mounted
    /\ replyingTo' = (IF \E i \in DOMAIN messages : messages[i].id = messageId
                      THEN messageId
                      ELSE replyingTo)
    /\ UNCHANGED <<deleteReqs, removed, uploading, sendOps, uploadCalls, sendCalls, alerts>>
    /\ UNCHANGED <<windowVars, rendered, translateFailures, listVars>>

\* line 331: the reply banner is dismissed
CancelReply ==
    /\ Tick
    /\ mounted
    /\ replyingTo # NoReply
    /\ replyingTo' = NoReply
    /\ UNCHANGED <<deleteReqs, removed, uploading, sendOps, uploadCalls, sendCalls, alerts>>
    /\ UNCHANGED <<windowVars, rendered, translateFailures, listVars>>

\* lines 119-122: up to the await of canSendMessage
handleSendMessage(text) ==
    /\ Tick
    /\ mounted
    /\ IF trim(text) = ""
       THEN UNCHANGED sendOps
       ELSE StartOp([kind |-> "text", stage |-> "canSendMessage", reply |-> replyingTo])
    /\ UNCHANGED <<deleteReqs, removed, replyingTo, uploading, uploadCalls, sendCalls, alerts>>
    /\ UNCHANGED <<windowVars, rendered, translateFailures, listVars>>

\* lines 145-154: up to the await of canSendMessage
handleSendMedia(file) ==
    /\ Tick
    /\ mounted
    /\ IF ~validateMediaFile(file).valid
       THEN /\ alerts' = alerts + 1
            /\ UNCHANGED sendOps
       ELSE /\ StartOp([kind |-> "media", stage |-> "canSendMessage", reply |-> replyingTo])
            /\ UNCHANGED alerts
    /\ UNCHANGED <<deleteReqs, removed, replyingTo, uploading, uploadCalls, sendCalls>>
    /\ UNCHANGED <<windowVars, rendered, translateFailures, listVars>>

\* canSendMessage resolves with its answer: lines 123-128 of handleSendMessage,
\* lines 155-162 of handleSendMedia.
CanSendResolve(op, validation) ==
    /\ Tick
    /\ op \in sendOps
    /\ op.stage = "canSendMessage"
    /\ IF ~IsAllowed(validation)
       THEN /\ alerts' = alerts + 1
            /\ sendOps' = sendOps \ {op}
            /\ UNCHANGED <<uploading, uploadCalls, sendCalls>>
       ELSE IF op.kind = "text"
            THEN /\ sendCalls' = sendCalls + 1
                 /\ sendOps' = (sendOps \ {op}) \cup {[op EXCEPT !.stage = "sendMessage"]}
                 /\ UNCHANGED <<uploading, uploadCalls, alerts>>
            ELSE /\ uploading' = TRUE
                 /\ uploadCalls' = uploadCalls + 1
                 /\ sendOps' = (sendOps \ {op}) \cup {[op EXCEPT !.stage = "uploadMedia"]}
                 /\ UNCHANGED <<sendCalls, alerts>>
    /\ UNCHANGED <<deleteReqs, removed, replyingTo>>
    /\ UNCHANGED <<windowVars, rendered, translateFailures, listVars>>

\* canSendMessage rejects: neither handler awaits it inside a try.
CanSendReject(op) ==
    /\ Tick
    /\ op \in sendOps
    /\ op.stage = "canSendMessage"
    /\ sendOps' = sendOps \ {op}
    /\ UNCHANGED <<deleteReqs, removed, replyingTo, uploading, uploadCalls, sendCalls, alerts>>
    /\ UNCHANGED <<windowVars, rendered, translateFailures, listVars>>

\* lines 162-164: the upload resolves and sendMessage is called
UploadResolve(op) ==
    /\ Tick
    /\ op \in sendOps
    /\ op.stage = "uploadMedia"
    /\ sendCalls' = sendCalls + 1
    /\ sendOps' = (sendOps \ {op}) \cup {[op EXCEPT !.stage = "sendMessage"]}
    /\ UNCHANGED <<deleteReqs, removed, replyingTo, uploading, uploadCalls, alerts>>
    /\ UNCHANGED <<windowVars, rendered, translateFailures, listVars>>

\* the upload rejects: catch and finally of lines 178-183
UploadFail(op) ==
    /\ Tick
    /\ op \in sendOps
    /\ op.stage = "uploadMedia"
    /\ alerts' = alerts + 1
    /\ uploading' = FALSE
    /\ sendOps' = sendOps \ {op}
    /\ UNCHANGED <<deleteReqs, removed, replyingTo, uploadCalls, sendCalls>>
    /\ UNCHANGED <<windowVars, rendered, translateFailures, listVars>>

\* sendMessage resolves: line 142, or lines 177 and 182
SendResolve(op) ==
    /\ Tick
    /\ op \in sendOps
    /\ op.stage = "sendMessage"
    /\ replyingTo' = NoReply
    /\ uploading' = (IF op.kind = "media" THEN FALSE ELSE uploading)
    /\ sendOps' = sendOps \ {op}
    /\ UNCHANGED <<deleteReqs, removed, uploadCalls, sendCalls, alerts>>
    /\ UNCHANGED <<windowVars, rendered, translateFailures, listVars>>

\* sendMessage rejects: handleSendMessage has no catch; handleSendMedia runs the
\* catch and finally of lines 178-183.
SendFail(op) ==
    /\ Tick
    /\ op \in sendOps
    /\ op.stage = "sendMessage"
    /\ alerts' = (IF op.kind = "media" THEN alerts + 1 ELSE alerts)
    /\ uploading' = (IF op.kind = "media" THEN FALSE ELSE uploading)
    /\ sendOps' = sendOps \ {op}
    /\ UNCHANGED <<deleteReqs, removed, replyingTo, uploadCalls, sendCalls>>
    /\ UNCHANGED <<windowVars, rendered, translateFailures, listVars>>

(***************************************************************************)
(* The delivery callback of getChatMessages (lines 80-102).                *)
(***************************************************************************)
\* Once a callback has reached line 101, every callback of the same live
\* subscription that was delivered before it (those at the positions `earlier`)
\* is superseded.
Supersede(bs, b, earlier) ==
    [i \in DOMAIN bs |->
        IF i \in earlier /\ ~b.cancelled /\ ~bs[i].cancelled
        THEN [bs[i] EXCEPT !.superseded = TRUE]
        ELSE bs[i]]

\* lines 81-86: the callback up to its await
Batch(s, fetchedMessages, deletedLocally) ==
    [lang |-> s.lang, enabled |-> s.enabled,
     msgs |-> FilterMessages(fetchedMessages, deletedLocally, s.blocked),
     done |-> {}, cancelled |-> FALSE, orphan |-> FALSE, superseded |-> FALSE]

\* lines 86-101: what the callback of batch b passes to setMessages
ProcessedMessages(b) == IF b.enabled THEN Processed(b.msgs, b.done, b.lang) ELSE b.msgs

\* line 88: the callback awaits (a Promise.all over no fetch resolves within the
\* delivery, before any other event)
Awaits(b) == b.enabled /\ ~AllResolved(b.msgs, b.done)

\* the list the backend delivers for chat c: its messages without those deleted
\* for everyone
DeliveredMessages(c) ==
    LET Kept(msg) == msg.id \notin removed
    IN  SelectSeq(FetchedMessages(stored[c], c), Kept)

\* The subscription s delivers the chat's current message list.
Deliver(s) ==
    LET b == Batch(s, DeliveredMessages(s.chat),
                   getDeletedMessagesForChat(ledger, s.chat))
    IN  /\ Tick
        /\ UNCHANGED outsideStream
        /\ UNCHANGED echoReqs
        /\ mounted
        /\ s \in subs
        /\ IF Awaits(b)
           THEN /\ Len(batches) < MaxInFlight
                /\ batches' = Append(batches, b)
                /\ UNCHANGED messages
           ELSE /\ messages' = ProcessedMessages(b)
                /\ batches' = Supersede(batches, b, DOMAIN batches)
        /\ UNCHANGED <<mounted, chatId, blockedUsers, translationEnabled, targetLanguage,
                       showSettings, unreadMessageIds, hasMarkedAsReadRef, subs, unreadReqs,
                       markReqs, stored, backendUnread, ledger, settings, callLog,
                       snapshotCalls, snapshotShown, peakSubs>>

\* The translation fetch of message k of the i-th suspended callback resolves; when
\* Promise.all resolves with it, the callback goes on to line 101.
TranslateDone(i, k) ==
    /\ Tick
    /\ UNCHANGED outsideStream
    /\ UNCHANGED echoReqs
    /\ i \in DOMAIN batches
    /\ k \in FetchIndices(batches[i].msgs) \ batches[i].done
    /\ LET b == [batches[i] EXCEPT !.done = @ \cup {k}]
       IN  IF Awaits(b)
           THEN /\ batches' = [batches EXCEPT ![i] = b]
                /\ UNCHANGED messages
           ELSE IF b.orphan
                THEN /\ batches' = RemoveAt(batches, i)
                     /\ UNCHANGED messages
                ELSE /\ messages' = ProcessedMessages(b)
                     /\ batches' = RemoveAt(Supersede(batches, b, 1..(i - 1)), i)
    /\ UNCHANGED <<mounted, chatId, blockedUsers, translationEnabled, targetLanguage,
                   showSettings, unreadMessageIds, hasMarkedAsReadRef, subs, unreadReqs,
                   markReqs, stored, backendUnread, ledger, settings, callLog,
                   snapshotCalls, snapshotShown, peakSubs>>

\* a failed fetch after which the callback publishes its list all the same, the
\* messages whose fetch has not resolved left untranslated
TranslateFailFallback(i, k) ==
    /\ Tick
    /\ UNCHANGED <<rendered, listVars, actionVars>>
    /\ UNCHANGED echoReqs
    /\ i \in DOMAIN batches
    /\ k \in FetchIndices(batches[i].msgs) \ batches[i].done
    /\ batches' = RemoveAt(batches, i)
    /\ translateFailures' = translateFailures + 1
    /\ messages' = Processed(batches[i].msgs, batches[i].done, batches[i].lang)
    /\ UNCHANGED <<mounted, chatId, blockedUsers, translationEnabled, targetLanguage,
                   showSettings, unreadMessageIds, hasMarkedAsReadRef, subs,
                   unreadReqs, markReqs, stored, backendUnread, ledger, settings,
                   callLog, snapshotCalls, snapshotShown, peakSubs>>

\* A translation fetch of the i-th suspended callback rejects: Promise.all rejects,
\* the callback throws at line 89 and never reaches line 101.
TranslateFail(i, k) ==
    /\ Tick
    /\ UNCHANGED <<rendered, listVars, actionVars>>
    /\ UNCHANGED echoReqs
    /\ i \in DOMAIN batches
    /\ k \in FetchIndices(batches[i].msgs) \ batches[i].done
    /\ batches' = RemoveAt(batches, i)
    /\ translateFailures' = translateFailures + 1
    /\ UNCHANGED <<mounted, chatId, blockedUsers, translationEnabled, targetLanguage,
                   showSettings, messages, unreadMessageIds, hasMarkedAsReadRef, subs,
                   unreadReqs, markReqs, stored, backendUnread, ledger, settings,
                   callLog, snapshotCalls, snapshotShown, peakSubs>>

(***************************************************************************)
(* The read-state promises.                                                *)
(***************************************************************************)
\* lines 74-76: getUnreadMessages(...).then(...)
UnreadResolve(r) ==
    /\ Tick
    /\ UNCHANGED outsideStream
    /\ UNCHANGED echoReqs
    /\ r \in unreadReqs
    /\ unreadReqs' = unreadReqs \ {r}
    /\ unreadMessageIds' = (IF r.orphan THEN unreadMessageIds ELSE r.ids)
    /\ snapshotShown' = (IF r.orphan THEN snapshotShown ELSE r.cur)
    /\ UNCHANGED <<mounted, chatId, blockedUsers, translationEnabled, targetLanguage,
                   showSettings, messages, hasMarkedAsReadRef, subs, batches, markReqs,
                   stored, backendUnread, ledger, settings, callLog, snapshotCalls, peakSubs>>

\* lines 113-115: markMessagesAsRead(...).then(...)
MarkResolve(r) ==
    /\ Tick
    /\ UNCHANGED outsideStream
    /\ UNCHANGED echoReqs
    /\ r \in markReqs
    /\ markReqs' = markReqs \ {r}
    /\ unreadMessageIds' = (IF r.orphan THEN unreadMessageIds ELSE {})
    /\ snapshotShown' = (IF r.orphan THEN snapshotShown ELSE FALSE)
    /\ UNCHANGED <<mounted, chatId, blockedUsers, translationEnabled, targetLanguage,
                   showSettings, messages, hasMarkedAsReadRef, subs, batches, unreadReqs,
                   stored, backendUnread, ledger, settings, callLog, snapshotCalls, peakSubs>>

(***************************************************************************)
(* The backend message store.                                              *)
(***************************************************************************)
\* A message is added to chat c; one of the counterpart is unread.
BackendNewMessage(c) ==
    /\ Tick
    /\ UNCHANGED outsideStream
    /\ UNCHANGED echoReqs
    /\ stored[c] < MaxMsgs
    /\ stored' = [stored EXCEPT ![c] = @ + 1]
    /\ backendUnread' =
          IF MsgSender(c, stored[c] + 1) # CurrentUser
          THEN [backendUnread EXCEPT ![c] = @ \cup {<<c, stored[c] + 1>>}]
          ELSE backendUnread
    /\ UNCHANGED <<mounted, chatId, blockedUsers, translationEnabled, targetLanguage,
                   showSettings, messages, unreadMessageIds, hasMarkedAsReadRef, subs, batches,
                   unreadReqs, markReqs, ledger, settings, callLog, snapshotCalls,
                   snapshotShown, peakSubs>>

Next ==
    \/ \E c \in Chats, en \in BOOLEAN, lang \in Langs : Mount(c, en, lang)
    \/ \E c \in Chats : ChangeChat(c)
    \/ Unmount
    \/ handleToggleTranslation
    \/ \E en \in BOOLEAN, lang \in Langs : handleSaveTranslationSettings(en, lang)
    \/ \E lang \in Langs : handleLanguageChange(lang)
    \/ CloseSettings
    \/ \E r \in echoReqs : EchoResolve(r)
    \/ \E r \in echoReqs : EchoFail(r)
    \/ \E u \in Others : BlockedUsersChange(u)
    \/ \E c \in Chats, n \in 1..MaxMsgs : handleDeleteLocalMessage(<<c, n>>)
    \/ \E s \in subs : Deliver(s)
    \/ \E i \in 1..MaxInFlight, k \in 1..MaxMsgs : TranslateDone(i, k)
    \/ \E i \in 1..MaxInFlight, k \in 1..MaxMsgs : TranslateFail(i, k)
    \/ \E r \in unreadReqs : UnreadResolve(r)
    \/ \E r \in markReqs : MarkResolve(r)
    \/ \E c \in Chats : BackendNewMessage(c)

Spec == Init /\ [][Next]_vars

(***************************************************************************)
(* The composer of an open chat window.                                    *)
(***************************************************************************)
NextComposer ==
    \/ \E c \in Chats : Mount(c, FALSE, "en")
    \/ \E s \in subs : Deliver(s)
    \/ \E n \in 1..MaxMsgs : handleReplyToMessage(<<chatId, n>>)
    \/ CancelReply
    \/ \E text \in Texts : handleSendMessage(text)
    \/ \E file \in Files : handleSendMedia(file)
    \/ \E op \in sendOps, validation \in Validations : CanSendResolve(op, validation)
    \/ \E op \in sendOps : CanSendReject(op)
    \/ \E op \in sendOps : UploadResolve(op)
    \/ \E op \in sendOps : UploadFail(op)
    \/ \E op \in sendOps : SendResolve(op)
    \/ \E op \in sendOps : SendFail(op)

SpecComposer == Init /\ [][NextComposer]_vars

(***************************************************************************)
(* The Presentation Grouper (lines 238-267).                               *)
(***************************************************************************)
\* compares the day of the month only
isSameDayOfMonth(date1, date2) == date1.date = date2.date

isSameDay(date1, date2) ==
    /\ date1.year = date2.year
    /\ date1.month = date2.month
    /\ date1.date = date2.date

DateItem(ts) == [type |-> "date", data |-> ts]

UnreadItem == [type |-> "unread", data |-> [null |-> TRUE]]

MessageItem(message) == [type |-> "message", data |-> message]

\* a marker before every unread message
IsUnread(message, unreadIds, unreadSeparatorAdded) == message.id \in unreadIds

\* line 258
NeedsUnreadSeparator(message, unreadIds, unreadSeparatorAdded) ==
    message.id \in unreadIds /\ ~unreadSeparatorAdded

\* lines 248-264: the forEach, from position index on; acc holds
\* messagesWithSeparators and unreadSeparatorAdded
RECURSIVE GroupFrom(_, _, _, _)
GroupFrom(msgs, unreadIds, index, acc) ==
    IF index > Len(msgs) THEN acc.out
    ELSE LET message  == msgs[index]
             withDate == IF index = 1
                         THEN Append(acc.out, DateItem(message.timestamp))
                         ELSE IF ~isSameDay(msgs[index - 1].timestamp, message.timestamp)
                              THEN Append(acc.out, DateItem(message.timestamp))
                              ELSE acc.out
             mark     == NeedsUnreadSeparator(message, unreadIds, acc.added)
             withMark == IF mark THEN Append(withDate, UnreadItem) ELSE withDate
         IN  GroupFrom(msgs, unreadIds, index + 1,
                       [out |-> Append(withMark, MessageItem(message)),
                        added |-> acc.added \/ mark])

\* a forEach that starts at the second message
GroupedSkippingFirst(msgs, unreadIds) ==
    GroupFrom(msgs, unreadIds, 2, [out |-> <<>>, added |-> FALSE])

getMessagesWithDateSeparators(msgs, unreadIds) ==
    GroupFrom(msgs, unreadIds, 1, [out |-> <<>>, added |-> FALSE])

\* what the view shows
Display == getMessagesWithDateSeparators(messages, unreadMessageIds)

(***************************************************************************)
(* The Presentation Grouper on its own: every list of at most MaxLen       *)
(* messages in timestamp order (the order of the backend's deliveries)     *)
(* over MaxDay calendar days, with every unread set over their ids.        *)
(***************************************************************************)
\* the d-th day: 1 Dec 2023, 1 Jan 2024, 1 Feb 2024, then 2 Feb, 3 Feb, ...
Calendar(d) ==
    IF d = 1 THEN [year |-> 2023, month |-> 11, date |-> 1]
    ELSE IF d = 2 THEN [year |-> 2024, month |-> 0, date |-> 1]
    ELSE [year |-> 2024, month |-> 1, date |-> d - 2]

GrouperMessage(i, d) == [Message("c1", i) EXCEPT !.timestamp = Calendar(d)]

OrderedDays ==
    {ds \in UNION {[1..n -> 1..MaxDay] : n \in 0..MaxLen} :
        \A i \in 1..(Len(ds) - 1) : ds[i] <= ds[i + 1]}

GrouperLists == {[i \in 1..Len(ds) |-> GrouperMessage(i, ds[i])] : ds \in OrderedDays}

InitGrouper ==
    /\ mounted = TRUE
    /\ chatId = "c1"
    /\ blockedUsers = {}
    /\ translationEnabled = FALSE
    /\ targetLanguage = "en"
    /\ showSettings = FALSE
    /\ messages \in GrouperLists
    /\ unreadMessageIds \in SUBSET {<<"c1", i>> : i \in 1..MaxLen}
    /\ hasMarkedAsReadRef = TRUE
    /\ subs = {Subscription("c1", FALSE, "en", {})}
    /\ batches = <<>>
    /\ unreadReqs = {}
    /\ markReqs = {}
    /\ echoReqs = {}
    /\ stored = [c \in Chats |-> InitialMsgs(c)]
    /\ backendUnread = [c \in Chats |-> {}]
    /\ ledger = [c \in Chats |-> {}]
    /\ settings = [c \in Chats |-> DefaultSettings]
    /\ callLog = <<>>
    /\ snapshotCalls = 1
    /\ snapshotShown = FALSE
    /\ peakSubs = 1
    /\ steps = 0
    /\ rendered = <<>>
    /\ translateFailures = 0
    /\ ListIdle
    /\ ActionsIdle

\* line 269 on: the render calls getMessagesWithDateSeparators()
Render ==
    /\ Tick
    /\ mounted
    /\ rendered' = Display
    /\ UNCHANGED translateFailures
    /\ UNCHANGED <<windowVars, listVars, actionVars>>

NextGrouper == Render

SpecGrouper == InitGrouper /\ [][NextGrouper]_vars

(***************************************************************************)
(* The Chat List Aggregator: the ChatList component (second source file).  *)
(* The backend hands every snapshot the user's chat documents in an order  *)
(* of its choosing.                                                        *)
(***************************************************************************)
ChatOrders ==
    {o \in [1..Cardinality(Chats) -> Chats] : \A c \in Chats : \E i \in DOMAIN o : o[i] = c}

\* the Chat document of c as a snapshot carries it; other is what
\* participants.find(id => id !== currentUser.uid) gives (line 55)
ChatDoc(c) == [id |-> c, other |-> participantOf[c], deletedAt |-> c \in chatDeleted]

\* the `null` an enrichment returns
NullChat == [id |-> "null"]

getUser(known, userId) == userId \in known

hasChatMessages(store, c) == store[c] > 0

getUnreadCount(unread, c) == Cardinality(unread[c])

\* lines 53-56: the checks made before the first await
NeedsFetch(doc) == ~doc.deletedAt /\ doc.other # "none"

\* an enrichment that lists a chat without asking whether it has messages
EnrichedUnchecked(doc) ==
    IF ~NeedsFetch(doc) THEN NullChat
    ELSE IF ~getUser(profiles, doc.other) THEN NullChat
    ELSE [id |-> doc.id, otherUser |-> doc.other,
          unreadCount |-> getUnreadCount(backendUnread, doc.id)]

\* lines 52-71: what the enrichment of one chat document resolves to
Enriched(doc) ==
    IF ~NeedsFetch(doc) THEN NullChat
    ELSE IF ~getUser(profiles, doc.other) THEN NullChat
    ELSE IF ~hasChatMessages(stored, doc.id) THEN NullChat
    ELSE [id |-> doc.id, otherUser |-> doc.other,
          unreadCount |-> getUnreadCount(backendUnread, doc.id)]

\* the enrichments of a suspended callback that have not resolved yet
PendingOf(snap) == {k \in DOMAIN snap.docs : NeedsFetch(snap.docs[k])} \ snap.done

\* the Promise.all resolves as soon as one enrichment has
AnyEnriched(snap) == snap.done # {} \/ PendingOf(snap) = {}

\* lines 51-72: Promise.all over the enrichments
AllEnriched(snap) == PendingOf(snap) = {}

\* line 73
NonNull(results) ==
    LET Keep(chat) == chat # NullChat
    IN  SelectSeq(results, Keep)

\* lines 50-52: the callback up to its Promise.all
ListSnap(order) ==
    [docs    |-> [i \in DOMAIN order |-> ChatDoc(order[i])],
     results |-> [i \in DOMAIN order |-> NullChat],
     done    |-> {}]

\* The getUserChats subscription delivers the user's chat documents.
ListDeliver(order) ==
    LET snap == ListSnap(order)
    IN  /\ Tick
        /\ IF AllEnriched(snap)
           THEN /\ chats' = NonNull(snap.results)
                /\ UNCHANGED listSnaps
           ELSE /\ Len(listSnaps) < MaxListSnaps
                /\ listSnaps' = Append(listSnaps, snap)
                /\ UNCHANGED chats
        /\ UNCHANGED <<listBlockedUsers, contextMenu, listReqs, chatDeleted, participantOf,
                       profiles>>
        /\ UNCHANGED <<windowVars, rendered, translateFailures, actionVars>>

\* The enrichment of document k of the i-th suspended callback resolves; when the
\* Promise.all resolves with it, line 73 publishes the list.
EnrichDone(i, k) ==
    /\ Tick
    /\ i \in DOMAIN listSnaps
    /\ k \in PendingOf(listSnaps[i])
    /\ LET snap == [listSnaps[i] EXCEPT !.results[k] = Enriched(listSnaps[i].docs[k]),
                                         !.done = @ \cup {k}]
       IN  IF AllEnriched(snap)
           THEN /\ chats' = NonNull(snap.results)
                /\ listSnaps' = RemoveAt(listSnaps, i)
           ELSE /\ listSnaps' = [listSnaps EXCEPT ![i] = snap]
                /\ UNCHANGED chats
    /\ UNCHANGED <<listBlockedUsers, contextMenu, listReqs, chatDeleted, participantOf,
                   profiles>>
    /\ UNCHANGED <<windowVars, rendered, translateFailures, actionVars>>

\* A fetch of the enrichment of document k rejects: the Promise.all rejects and the
\* `then` of line 72 never runs.
EnrichFail(i, k) ==
    /\ Tick
    /\ i \in DOMAIN listSnaps
    /\ k \in PendingOf(listSnaps[i])
    /\ listSnaps' = RemoveAt(listSnaps, i)
    /\ UNCHANGED <<chats, listBlockedUsers, contextMenu, listReqs, chatDeleted,
                   participantOf, profiles>>
    /\ UNCHANGED <<windowVars, rendered, translateFailures, actionVars>>

Displayed(c) == \E j \in DOMAIN chats : chats[j].id = c

\* onContextMenu of a row of the list
OpenContextMenu(c) ==
    /\ Tick
    /\ Displayed(c)
    /\ contextMenu # c
    /\ contextMenu' = c
    /\ UNCHANGED <<chats, listBlockedUsers, listSnaps, listReqs, chatDeleted, participantOf,
                   profiles>>
    /\ UNCHANGED <<windowVars, rendered, translateFailures, actionVars>>

\* line 108
RemoveChat(list, c) ==
    LET Keep(chat) == chat.id # c
    IN  SelectSeq(list, Keep)

\* lines 103-107: handleDeleteChat up to its await; the handler closes over the
\* chats of the render it was created in
handleDeleteChat(c) ==
    /\ Tick
    /\ Displayed(c)
    /\ contextMenu = c
    /\ Cardinality(listReqs) < MaxListReqs
    /\ listReqs' = listReqs \cup {[call |-> "deleteChat", chat |-> c, user |-> "none",
                                    closure |-> chats]}
    /\ UNCHANGED <<chats, listBlockedUsers, contextMenu, listSnaps, chatDeleted,
                   participantOf, profiles>>
    /\ UNCHANGED <<windowVars, rendered, translateFailures, actionVars>>

\* lines 116-128: handleBlockUser up to its await
handleBlockUser(c, userId, isBlocked) ==
    /\ Tick
    /\ contextMenu = c
    /\ \E j \in DOMAIN chats : chats[j].id = c /\ chats[j].otherUser = userId
    /\ isBlocked = (userId \in listBlockedUsers)
    /\ Cardinality(listReqs) < MaxListReqs
    /\ listReqs' = listReqs \cup
                       {[call |-> IF isBlocked THEN "unblockUser" ELSE "blockUser",
                         chat |-> c, user |-> userId, closure |-> <<>>]}
    /\ UNCHANGED <<chats, listBlockedUsers, contextMenu, listSnaps, chatDeleted,
                   participantOf, profiles>>
    /\ UNCHANGED <<windowVars, rendered, translateFailures, actionVars>>

\* The backend call r succeeds and its handler goes on after the await
\* (lines 108-109, 122-126 and 131, 129 and 131).
ListReqResolve(r) ==
    /\ Tick
    /\ r \in listReqs
    /\ listReqs' = listReqs \ {r}
    /\ contextMenu' = "none"
    /\ IF r.call = "deleteChat"
       THEN /\ chatDeleted' = chatDeleted \cup {r.chat}
            /\ chats' = RemoveChat(r.closure, r.chat)
            /\ UNCHANGED listBlockedUsers
       ELSE /\ listBlockedUsers' = (IF r.call = "blockUser"
                                    THEN listBlockedUsers \cup {r.user}
                                    ELSE listBlockedUsers \ {r.user})
            /\ UNCHANGED <<chats, chatDeleted>>
    /\ UNCHANGED <<listSnaps, participantOf, profiles>>
    /\ UNCHANGED <<windowVars, rendered, translateFailures, actionVars>>

\* a failure after which the chat is dropped from the list all the same
ListReqFailDropping(r) ==
    /\ Tick
    /\ r \in listReqs
    /\ listReqs' = listReqs \ {r}
    /\ chats' = RemoveChat(chats, r.chat)
    /\ alerts' = alerts + 1
    /\ UNCHANGED <<listBlockedUsers, contextMenu, listSnaps, chatDeleted,
                   participantOf, profiles>>
    /\ UNCHANGED <<deleteReqs, removed, replyingTo, uploading, sendOps, uploadCalls,
                   sendCalls>>
    /\ UNCHANGED <<windowVars, rendered, translateFailures>>

\* The backend call r fails: the catch of line 110 or 132 logs and alerts.
ListReqFail(r) ==
    /\ Tick
    /\ r \in listReqs
    /\ listReqs' = listReqs \ {r}
    /\ alerts' = alerts + 1
    /\ UNCHANGED <<chats, listBlockedUsers, contextMenu, listSnaps, chatDeleted,
                   participantOf, profiles>>
    /\ UNCHANGED <<deleteReqs, removed, replyingTo, uploading, sendOps, uploadCalls,
                   sendCalls>>
    /\ UNCHANGED <<windowVars, rendered, translateFailures>>

\* The chat list is mounted over any population of the backend: each chat with or
\* without a counterpart, a profile, a deletedAt marker and messages.
InitList ==
    /\ mounted = FALSE
    /\ chatId = "c1"
    /\ blockedUsers = {}
    /\ translationEnabled = FALSE
    /\ targetLanguage = "en"
    /\ showSettings = FALSE
    /\ messages = <<>>
    /\ unreadMessageIds = {}
    /\ hasMarkedAsReadRef = FALSE
    /\ subs = {}
    /\ batches = <<>>
    /\ unreadReqs = {}
    /\ markReqs = {}
    /\ echoReqs = {}
    /\ stored \in [Chats -> {0, 2}]
    /\ backendUnread = [c \in Chats |-> UnreadOf(stored[c], c)]
    /\ ledger = [c \in Chats |-> {}]
    /\ settings = [c \in Chats |-> DefaultSettings]
    /\ callLog = <<>>
    /\ snapshotCalls = 0
    /\ snapshotShown = FALSE
    /\ peakSubs = 0
    /\ steps = 0
    /\ rendered = <<>>
    /\ translateFailures = 0
    /\ ActionsIdle
    /\ chats = <<>>
    /\ listBlockedUsers = {}
    /\ contextMenu = "none"
    /\ listSnaps = <<>>
    /\ listReqs = {}
    /\ chatDeleted \in SUBSET Chats
    /\ participantOf \in {f \in [Chats -> Others \cup {"none"}] :
                             \A c \in Chats : f[c] \in {OtherUser(c), "none"}}
    /\ profiles \in SUBSET Others

NextList ==
    \/ \E order \in ChatOrders : ListDeliver(order)
    \/ \E i \in 1..MaxListSnaps, k \in 1..Cardinality(Chats) : EnrichDone(i, k)
    \/ \E i \in 1..MaxListSnaps, k \in 1..Cardinality(Chats) : EnrichFail(i, k)
    \/ \E c \in Chats : OpenContextMenu(c)
    \/ \E c \in Chats : handleDeleteChat(c)
    \/ \E c \in Chats, u \in Others, b \in BOOLEAN : handleBlockUser(c, u, b)
    \/ \E r \in listReqs : ListReqResolve(r)
    \/ \E r \in listReqs : ListReqFail(r)
    \/ \E c \in Chats : BackendNewMessage(c)

SpecList == InitList /\ [][NextList]_vars

(***************************************************************************)
(* The operations that go through the backend before they change local     *)
(* state: deletion for everyone in an open chat window, next to the chat    *)
(* list's deleteChat and blockUser / unblockUser.                           *)
(***************************************************************************)
NextActions ==
    \/ \E c \in Chats : Mount(c, FALSE, "en")
    \/ \E s \in subs : Deliver(s)
    \/ \E n \in 1..MaxMsgs : handleDeleteMessageForEveryone(<<chatId, n>>)
    \/ \E r \in deleteReqs : DeleteResolve(r)
    \/ \E r \in deleteReqs : DeleteFail(r)
    \/ \E order \in ChatOrders : ListDeliver(order)
    \/ \E i \in 1..MaxListSnaps, k \in 1..Cardinality(Chats) : EnrichDone(i, k)
    \/ \E c \in Chats : OpenContextMenu(c)
    \/ \E c \in Chats : handleDeleteChat(c)
    \/ \E c \in Chats, u \in Others, b \in BOOLEAN : handleBlockUser(c, u, b)
    \/ \E r \in listReqs : ListReqResolve(r)
    \/ \E r \in listReqs : ListReqFail(r)

SpecActions == Init /\ [][NextActions]_vars

(***************************************************************************)
(* Properties.                                                             *)
(***************************************************************************)
\* the step is the one in which the i-th suspended callback, its last fetch k
\* resolved, passes its list to setMessages of the mounted view
PublishedBy(i, k) ==
    /\ TranslateDone(i, k)
    /\ LET b == [batches[i] EXCEPT !.done = @ \cup {k}]
       IN  ~Awaits(b) /\ ~b.orphan

\* the step is a delivery of s whose callback reaches setMessages without awaiting
PublishedDirectly(s) == Deliver(s) /\ Len(batches') = Len(batches)

\* C1: once the deletion of a message of the open chat is in the Deletion Ledger,
\* the message is not in the displayed list of that chat.
C1_LocallyDeletedNeverDisplayed ==
    mounted =>
        \A i \in DOMAIN messages :
            messages[i].id[1] = chatId =>
                messages[i].id \notin getDeletedMessagesForChat(ledger, chatId)

\* the list holds, in the order of `fetched`, exactly the messages of `fetched`
\* that are neither in `deleted` nor sent by a user in `blocked`
IsLedgerBlockFilter(list, fetched, deleted, blocked) ==
    LET kept == {i \in DOMAIN fetched :
                    fetched[i].id \notin deleted /\ fetched[i].senderId \notin blocked}
    IN  /\ Len(list) = Cardinality(kept)
        /\ \A j \in DOMAIN list :
              \E i \in kept : /\ Cardinality({x \in kept : x < i}) = j - 1
                              /\ list[j].id = fetched[i].id

SameIds(a, b) == Len(a) = Len(b) /\ \A j \in DOMAIN a : a[j].id = b[j].id

\* C2: the list a delivery hands on (published at once, or kept by the suspended
\* callback) is the delivered list without the ledger's and the blocked users'
\* messages, in delivery order; a callback that resumes publishes exactly the
\* messages it kept, in the same order.
C2_PublishedIsFilteredDelivery ==
    [][ /\ \A s \in subs :
              Deliver(s) =>
                  IsLedgerBlockFilter(
                      IF Len(batches') > Len(batches)
                      THEN batches'[Len(batches')].msgs ELSE messages',
                      DeliveredMessages(s.chat), ledger[s.chat], s.blocked)
        /\ \A i \in DOMAIN batches, k \in 1..MaxMsgs :
              PublishedBy(i, k) => SameIds(messages', batches[i].msgs)
      ]_vars

C2_Witness ==
    /\ mounted
    /\ chatId = "c1"
    /\ ledger["c1"] = {<<"c1", 1>>}
    /\ blockedUsers = {"u1"}
    /\ messages = <<Message("c1", 3)>>

\* C3: a callback superseded by a later delivery of the same subscription that has
\* already been published never publishes.
C3_NoRegressionToOlderDelivery ==
    [][ \A i \in DOMAIN batches, k \in 1..MaxMsgs :
            PublishedBy(i, k) => ~batches[i].superseded ]_vars

\* C4: a callback of a cancelled subscription never publishes to the view.
C4_NoPublishAfterCancel ==
    [][ \A i \in DOMAIN batches, k \in 1..MaxMsgs :
            PublishedBy(i, k) => ~batches[i].cancelled ]_vars

\* C5: at every moment, also inside a commit, at most one subscription is
\* active: the one of the current chat id, flag, language and block set while the
\* view is mounted, none once it is unmounted.
C5_AtMostOneSubscription ==
    /\ peakSubs <= 1
    /\ Cardinality(subs) <= 1
    /\ mounted => subs = {CurrentSub}
    /\ ~mounted => subs = {}

C5_Witness ==
    /\ mounted
    /\ chatId = "c2"
    /\ translationEnabled
    /\ targetLanguage = "es"
    /\ blockedUsers # {}
    /\ subs = {CurrentSub}
    /\ peakSubs = 1

\* C6: the displayed list never holds a translated message next to a translatable
\* message that lacks its translation.
C6_NoPartiallyTranslatedList ==
    \A i, j \in DOMAIN messages :
        (NeedsTranslation(messages[i]) /\ NeedsTranslation(messages[j]))
            => ((messages[i].translatedText = NoTranslation)
                    <=> (messages[j].translatedText = NoTranslation))

C6_Witness ==
    /\ Len(messages) >= 2
    /\ messages[1].translatedText # NoTranslation
    /\ messages[2].translatedText # NoTranslation

\* what the entry of the backend message `id` must be in a list published by a
\* subscription with the given flag and language
ExpectedEntry(id, enabled, lang) ==
    LET m == Message(id[1], id[2])
    IN  IF enabled /\ m.senderId # CurrentUser /\ m.originalText \notin {NoText, ""}
        THEN [m EXCEPT !.translatedText = translateText(m.originalText, lang)]
        ELSE m

\* C7: every published list holds each message as the backend holds it, with
\* translatedText attached exactly when the subscription translates, the message is
\* not the current user's and it carries text.
C7_TranslationAttached ==
    [][ /\ \A s \in subs :
              PublishedDirectly(s) =>
                  \A j \in DOMAIN messages' :
                      messages'[j] = ExpectedEntry(messages'[j].id, s.enabled, s.lang)
        /\ \A i \in DOMAIN batches, k \in 1..MaxMsgs :
              PublishedBy(i, k) =>
                  \A j \in DOMAIN messages' :
                      messages'[j] = ExpectedEntry(messages'[j].id, batches[i].enabled,
                                                   batches[i].lang)
      ]_vars

C7_Witness ==
    /\ mounted
    /\ translationEnabled
    /\ Len(messages) = 3
    /\ messages[1].originalText = "Hola"
    /\ messages[1].translatedText = translateText("Hola", "es")
    /\ messages[3].senderId = CurrentUser
    /\ messages[3].translatedText = NoTranslation

\* the display sequence d has the unread marker immediately before message id
MarkerBefore(d, id) ==
    \E j \in 1..(Len(d) - 1) :
        /\ d[j].type = "unread"
        /\ d[j + 1].type = "message"
        /\ d[j + 1].data.id = id

\* C8: when the mark-as-read call of a chat-open resolves while the snapshot of
\* that chat-open places the unread marker before a message, the marker is still
\* before that message afterwards.
C8_MarkerSurvivesMarkAsRead ==
    [][ \A r \in markReqs :
            (MarkResolve(r) /\ r.cur /\ snapshotShown) =>
                \A id \in unreadMessageIds :
                    MarkerBefore(Display, id) => MarkerBefore(Display', id) ]_vars

C10_OneSnapshotPerChatOpen ==
    /\ mounted => snapshotCalls = 1
    /\ ~mounted => snapshotCalls = 0
    /\ Cardinality({r \in unreadReqs : r.cur}) <= 1

C10_Witness ==
    /\ mounted
    /\ snapshotCalls = 1
    /\ translationEnabled
    /\ blockedUsers # {}
    /\ \E r \in unreadReqs : ~r.cur /\ ~r.orphan

\* a render has produced `rendered` from messages and unreadMessageIds
Rendered == steps > 0

DateMarkers(out) == {j \in DOMAIN out : out[j].type = "date"}

UnreadMarkers(out) == {j \in DOMAIN out : out[j].type = "unread"}

\* the calendar days (year, month, day of month) of a list
CalendarDays(msgs) == {msgs[i].timestamp : i \in DOMAIN msgs}

\* out[n] is the first message of its day in msgs, and that day is ts
IsFirstOfDay(out, n, msgs, ts) ==
    /\ n \in DOMAIN out
    /\ out[n].type = "message"
    /\ \E i \in DOMAIN msgs :
          /\ msgs[i] = out[n].data
          /\ msgs[i].timestamp = ts
          /\ \A k \in 1..(i - 1) : msgs[k].timestamp # ts

\* C11 as stated: as many date markers as calendar days, each immediately followed
\* by the first message of its day.
C11_DateMarkerImmediatelyBeforeDay ==
    Rendered =>
        /\ Cardinality(DateMarkers(rendered)) = Cardinality(CalendarDays(messages))
        /\ \A j \in DateMarkers(rendered) :
              IsFirstOfDay(rendered, j + 1, messages, rendered[j].data)

\* C11: as many date markers as calendar days, each followed by the first message
\* of its day with nothing but the unread marker in between.
C11_DateMarkerPerDay ==
    Rendered =>
        /\ Cardinality(DateMarkers(rendered)) = Cardinality(CalendarDays(messages))
        /\ \A j \in DateMarkers(rendered) :
              \/ IsFirstOfDay(rendered, j + 1, messages, rendered[j].data)
              \/ /\ j + 1 \in UnreadMarkers(rendered)
                 /\ IsFirstOfDay(rendered, j + 2, messages, rendered[j].data)

C11_Witness ==
    /\ Rendered
    /\ Len(messages) = 3
    /\ Cardinality(CalendarDays(messages)) = 2
    /\ Cardinality(DateMarkers(rendered)) = 2
    /\ \E j \in DateMarkers(rendered) : j + 1 \in UnreadMarkers(rendered)

\* the positions of msgs whose message is in the unread set
UnreadPositions(msgs, unreadIds) == {i \in DOMAIN msgs : msgs[i].id \in unreadIds}

\* the only unread marker of out is immediately before the earliest unread message
OneMarkerBeforeEarliest(out, msgs, unreadIds) ==
    /\ Cardinality(UnreadMarkers(out)) = 1
    /\ \A j \in UnreadMarkers(out) :
          /\ j + 1 \in DOMAIN out
          /\ out[j + 1].type = "message"
          /\ \E i \in UnreadPositions(msgs, unreadIds) :
                /\ msgs[i] = out[j + 1].data
                /\ \A k \in UnreadPositions(msgs, unreadIds) : i <= k

\* C12 as stated: a non-empty unread set gives exactly one unread marker, before
\* the earliest unread message; an empty one gives none.
C12_OneMarkerIfUnreadSetNonEmpty ==
    Rendered =>
        IF unreadMessageIds = {}
        THEN UnreadMarkers(rendered) = {}
        ELSE OneMarkerBeforeEarliest(rendered, messages, unreadMessageIds)

\* C12: when some message of the list is in the unread set there is exactly one
\* unread marker, immediately before the earliest such message; otherwise none.
C12_OneMarkerIfUnreadDisplayed ==
    Rendered =>
        IF UnreadPositions(messages, unreadMessageIds) = {}
        THEN UnreadMarkers(rendered) = {}
        ELSE OneMarkerBeforeEarliest(rendered, messages, unreadMessageIds)

C12_Witness ==
    /\ Rendered
    /\ Len(messages) = 3
    /\ unreadMessageIds = {<<"c1", 2>>, <<"c1", 3>>}
    /\ MarkerBefore(rendered, <<"c1", 2>>)
    /\ Cardinality(UnreadMarkers(rendered)) = 1

\* C13: once translation is toggled off, a delivery of the re-subscription leaves
\* the translatedText of every displayed message that stays displayed as it was.
C13_ToggleOffKeepsTranslations ==
    [][ \A s \in subs :
            (Deliver(s) /\ ~s.enabled /\ ~translationEnabled) =>
                \A i \in DOMAIN messages, j \in DOMAIN messages' :
                    (messages[i].translatedText # NoTranslation
                        /\ messages'[j].id = messages[i].id)
                    => messages'[j].translatedText = messages[i].translatedText ]_vars

\* C14: saving the settings or changing the language sets the view state and the
\* stored settings of the chat while the updateTranslationSettings call is still in
\* flight, and the failure of that call changes none of them.
C14_OptimisticSettings ==
    [][ /\ \A en \in BOOLEAN, lang \in Langs :
              handleSaveTranslationSettings(en, lang) =>
                  /\ translationEnabled' = en
                  /\ targetLanguage' = lang
                  /\ getSettings(settings', chatId) = [enabled |-> en, targetLanguage |-> lang]
                  /\ [handler |-> "save"] \in echoReqs'
        /\ \A lang \in Langs :
              handleLanguageChange(lang) =>
                  /\ targetLanguage' = lang
                  /\ getSettings(settings', chatId) =
                         [enabled |-> translationEnabled, targetLanguage |-> lang]
                  /\ [handler |-> "language"] \in echoReqs'
        /\ \A r \in echoReqs :
              EchoFail(r) => UNCHANGED <<translationEnabled, targetLanguage, settings>>
      ]_vars

\* the save call failed: the dialog is still open over the saved settings
C14_Witness ==
    /\ mounted
    /\ showSettings
    /\ echoReqs = {}
    /\ translationEnabled
    /\ targetLanguage = "es"
    /\ getSettings(settings, chatId) = [enabled |-> TRUE, targetLanguage |-> "es"]

\* C17: a delete-for-me adds the id to the ledger of the open chat and removes the
\* message from the displayed list; it issues no call and leaves the backend's
\* messages and read state as they are.
C17_DeleteForMeIsLocal ==
    [][ \A c \in Chats, n \in 1..MaxMsgs :
            handleDeleteLocalMessage(<<c, n>>) =>
                /\ ledger' = [ledger EXCEPT ![chatId] = @ \cup {<<c, n>>}]
                /\ \A i \in DOMAIN messages' : messages'[i].id # <<c, n>>
                /\ \A k \in Chats :
                      FetchedMessages(stored'[k], k) = FetchedMessages(stored[k], k)
                /\ UNCHANGED <<backendUnread, batches, unreadReqs, markReqs, echoReqs,
                               callLog, subs>>
      ]_vars

C17_Witness ==
    /\ mounted
    /\ chatId = "c1"
    /\ ledger["c1"] = {<<"c1", 1>>}
    /\ messages = <<Message("c1", 2)>>
    /\ stored["c1"] = 2

\* C18: in every state, recording a deletion a second time changes neither the
\* ledger nor the displayed list the first recording left.
C18_LocalDeletionIdempotent ==
    \A c \in Chats, n \in 1..MaxMsgs :
        LET once  == [led  |-> addLocalDeletedMessage(ledger, chatId, <<c, n>>),
                      msgs |-> RemoveMessage(messages, <<c, n>>)]
            twice == [led  |-> addLocalDeletedMessage(once.led, chatId, <<c, n>>),
                      msgs |-> RemoveMessage(once.msgs, <<c, n>>)]
        IN  twice = once

C18_Witness ==
    /\ mounted
    /\ chatId = "c2"
    /\ ledger["c2"] = {<<"c2", 2>>}
    /\ Len(messages) = 1
    /\ messages[1].id = <<"c2", 1>>

\* the step is the one in which the i-th suspended getUserChats callback, its last
\* enrichment k resolved, reaches setChats (line 73)
ListPublishedBy(i, k) == EnrichDone(i, k) /\ Len(listSnaps') < Len(listSnaps)

\* C15: every chat of a list published for a snapshot is, in that snapshot, without
\* deletedAt marker and with a participant other than the user, whose profile
\* resolves, and the chat holds at least one message.
C15_ListedChatsAreValid ==
    [][ /\ \A i \in DOMAIN listSnaps, k \in 1..Cardinality(Chats) :
              ListPublishedBy(i, k) =>
                  \A j \in DOMAIN chats' :
                      \E x \in DOMAIN listSnaps[i].docs :
                          LET doc == listSnaps[i].docs[x]
                          IN  /\ doc.id = chats'[j].id
                              /\ ~doc.deletedAt
                              /\ doc.other \in Others
                              /\ doc.other \in profiles
                              /\ chats'[j].otherUser = doc.other
                              /\ stored[doc.id] > 0
        /\ \A order \in ChatOrders :
              ListDeliver(order) => (chats' = chats \/ chats' = <<>>)
      ]_vars

C15_Witness ==
    /\ Len(chats) = 1
    /\ chats[1].id = "c1"
    /\ listSnaps = <<>>
    /\ stored["c2"] = 0
    /\ participantOf["c2"] = "u2"
    /\ "u2" \in profiles
    /\ "c2" \notin chatDeleted

\* the chats of list follow one another as their documents do in docs
InSnapshotOrder(list, docs) ==
    \A a, b \in DOMAIN list :
        a < b => \E x, y \in DOMAIN docs :
                    x < y /\ docs[x].id = list[a].id /\ docs[y].id = list[b].id

\* C16: a snapshot's list is published only when none of its enrichments is still
\* unresolved; it holds every chat whose enrichment gave a result, fully
\* enriched, in the order of the snapshot.
C16_ListPublishedWhenAllEnriched ==
    [][ \A i \in DOMAIN listSnaps, k \in 1..Cardinality(Chats) :
            ListPublishedBy(i, k) =>
                LET snap == listSnaps[i]
                IN  /\ PendingOf(snap) = {k}
                    /\ InSnapshotOrder(chats', snap.docs)
                    /\ \A x \in snap.done :
                          snap.results[x] # NullChat
                              => \E j \in DOMAIN chats' : chats'[j] = snap.results[x]
                    /\ \A j \in DOMAIN chats' :
                          chats'[j].otherUser \in profiles /\ chats'[j].unreadCount >= 0
      ]_vars

C16_Witness ==
    /\ Len(chats) = 2
    /\ chats[1].id = "c2"
    /\ chats[2].id = "c1"
    /\ listSnaps = <<>>

(***************************************************************************)
(* Properties of the operations that go through the backend.               *)
(***************************************************************************)
\* this step is the success continuation of a deleteMessageForEveryone call
DeleteSucceeded == \E r \in deleteReqs : DeleteResolve(r)

\* this step is the success continuation of a deleteChat call
DeleteChatSucceeded ==
    \E r \in listReqs : r.call = "deleteChat" /\ ListReqResolve(r)

\* this step is the success continuation of a blockUser or unblockUser call
BlockSucceeded ==
    \E r \in listReqs : r.call \in {"blockUser", "unblockUser"} /\ ListReqResolve(r)

\* this step completes a backend call without its success continuation
CallFailed ==
    \/ deleteReqs' # deleteReqs /\ deleteReqs' \subseteq deleteReqs /\ ~DeleteSucceeded
    \/ /\ listReqs' # listReqs /\ listReqs' \subseteq listReqs
       /\ ~DeleteChatSucceeded /\ ~BlockSucceeded

\* this step publishes the list of a delivery of the message stream
StreamPublished == \E s \in subs : Deliver(s) /\ messages' # messages

\* this step publishes the list of a snapshot of the chat documents
ListPublished ==
    \/ \E order \in ChatOrders : ListDeliver(order) /\ listSnaps' = listSnaps
    \/ \E i \in 1..MaxListSnaps, k \in 1..Cardinality(Chats) : ListPublishedBy(i, k)

\* C19: a failed deleteMessageForEveryone, deleteChat, blockUser or unblockUser
\* call leaves the displayed messages, the chat list, the context menu and the
\* local blocked-user set as they were, and apart from the publication of a
\* delivery the three change only in the step in which their backend call
\* succeeded.
C19_LocalChangeOnlyAfterSuccess ==
    [][/\ CallFailed =>
            UNCHANGED <<messages, chats, listBlockedUsers, contextMenu, mounted>>
       /\ messages' # messages => StreamPublished \/ DeleteSucceeded
       /\ chats' # chats => ListPublished \/ DeleteChatSucceeded
       /\ listBlockedUsers' # listBlockedUsers => BlockSucceeded]_vars

\* a deleteMessageForEveryone call has failed and the message is still displayed
C19_Witness ==
    /\ alerts = 1
    /\ deleteReqs = {}
    /\ listReqs = {}
    /\ removed = {}
    /\ Len(messages) = InitialMsgs(chatId)

\* this step is a send handler aborting on a validation failure: canSendMessage
\* answers that the message is not allowed, or validateMediaFile rejects the file
ValidationFailed ==
    \/ \E op \in sendOps :
           CanSendResolve(op, [allowed |-> FALSE]) /\ op \notin sendOps'
    \/ \E file \in Files : ~validateMediaFile(file).valid /\ handleSendMedia(file)

\* this step is a send handler going on after canSendMessage allowed the message
ValidationPassed(kind) ==
    \E op \in sendOps : op.kind = kind /\ CanSendResolve(op, [allowed |-> TRUE])

\* C20: a send that fails validation alerts and ends there: it issues no upload
\* and no sendMessage call, leaves the uploading flag and the reply target as
\* they were and leaves no execution of its handler behind; an upload is issued
\* and the uploading flag is set only when canSendMessage allowed a media send,
\* and sendMessage is called only after that upload or when canSendMessage
\* allowed a text send.
C20_ValidationFailureAborts ==
    [][/\ ValidationFailed =>
            /\ UNCHANGED <<uploadCalls, sendCalls, uploading, replyingTo>>
            /\ sendOps' \subseteq sendOps
            /\ alerts' = alerts + 1
       /\ uploadCalls' # uploadCalls => ValidationPassed("media")
       /\ (uploading' /\ ~uploading) => ValidationPassed("media")
       /\ sendCalls' # sendCalls =>
            ValidationPassed("text") \/ \E op \in sendOps : UploadResolve(op)]_vars

\* a send was refused by validation while a reply target was set: the target is
\* still set, nothing was uploaded or sent and the composer is not uploading
C20_Witness ==
    /\ alerts = 1
    /\ replyingTo # NoReply
    /\ sendOps = {}
    /\ uploadCalls = 0
    /\ sendCalls = 0
    /\ ~uploading

\* the messages of the message items of out, in order
MessagesOf(out) ==
    LET IsMessage(item) == item.type = "message"
        items == SelectSeq(out, IsMessage)
    IN  [n \in DOMAIN items |-> items[n].data]

\* the types of the items of out, in order
TypesOf(out) == [j \in DOMAIN out |-> out[j].type]

\* C21: the message items of the display sequence, in order, are exactly the
\* message list; a non-empty display sequence starts with a date marker; and the
\* unread marker is always immediately followed by its message, so that a date
\* marker before the same message comes first.
C21_GroupingKeepsMessages ==
    Rendered =>
        /\ MessagesOf(rendered) = messages
        /\ rendered # <<>> => rendered[1].type = "date"
        /\ \A j \in UnreadMarkers(rendered) :
              /\ j + 1 \in DOMAIN rendered
              /\ rendered[j + 1].type = "message"

\* three messages over two days, the one that opens the second day unread: its
\* date marker and the unread marker precede it, in that order
C21_Witness ==
    /\ Rendered
    /\ Len(messages) = 3
    /\ unreadMessageIds = {<<"c1", 3>>}
    /\ TypesOf(rendered) = <<"date", "message", "message", "date", "unread", "message">>
    /\ MessagesOf(rendered) = messages

\* this step ends a delivery callback by a rejected translation fetch
FetchFailed == translateFailures' # translateFailures

\* every message of the list that calls for a translation carries one
FullyTranslated(list) ==
    \A j \in DOMAIN list : NeedsTranslation(list[j]) => list[j].translatedText # NoTranslation

\* C22: when a translation fetch of a delivery fails, the displayed list stays as
\* it is and the callback of that delivery is gone, so that its batch is never
\* published; a batch that is published after its fetches holds every message it
\* was delivered with, each message that calls for a translation translated.
C22_FailedFetchPublishesNothing ==
    [][ /\ FetchFailed =>
              /\ messages' = messages
              /\ \E i \in DOMAIN batches : batches' = RemoveAt(batches, i)
        /\ \A i \in DOMAIN batches, k \in 1..MaxMsgs :
              PublishedBy(i, k) =>
                  /\ SameIds(messages', batches[i].msgs)
                  /\ FullyTranslated(messages')
      ]_vars

\* translation was switched on over a displayed list and the delivery of the new
\* subscription lost a translation fetch: the list still shows the messages as
\* the delivery before had published them
C22_Witness ==
    /\ mounted
    /\ translationEnabled
    /\ translateFailures = 1
    /\ batches = <<>>
    /\ Len(messages) = 2
    /\ NeedsTranslation(messages[1])
    /\ messages[1].translatedText = NoTranslation

\* C23: while a chat is open, the view's enabled flag and target language are the
\* settings the Translation Overlay store holds for that chat.
C23_ViewMatchesOverlayStore ==
    mounted =>
        /\ translationEnabled = getSettings(settings, chatId).enabled
        /\ targetLanguage = getSettings(settings, chatId).targetLanguage

\* C24: a chat that carries the deletedAt marker and is not in the displayed chat
\* list (deleteChat has resolved and handleDeleteChat has removed it) is not in
\* the displayed list after any further step.
C24_DeletedChatNeverReappears ==
    [][ \A c \in Chats :
            (c \in chatDeleted /\ ~Displayed(c)) => ~Displayed(c)' ]_vars

=============================================================================
